---- MODULE Spec2Model ----
(***************************************************************************)
(* Model of the dependency-injection containers of make-bin/server-tpl:    *)
(* SimpleContainer (pkg/utils/container/simple_container.go) and           *)
(* DIContainer (pkg/utils/container/container.go).                         *)
(*                                                                         *)
(* A behaviour follows ONE container, chosen in Init (impl).  Goroutines   *)
(* call its methods; every method is split at its lock statements: the     *)
(* ...Lock action is the call up to and including the acquisition of the   *)
(* sync.RWMutex, the ...Body action is the rest of the method including    *)
(* the deferred unlock and the return.  A goroutine that cannot acquire    *)
(* the mutex stays where it is until the mutex is free.                    *)
(***************************************************************************)
EXTENDS Integers, Sequences, FiniteSets, TLC

(***************************************************************************)
(* Bounds                                                                  *)
(***************************************************************************)
NumThreads == 2
MaxBeans == 2
MaxFactoryCalls == 3
MaxBatch == 2
MaxLookups == 2

Threads == 1..NumThreads

(***************************************************************************)
(* The Go types used as beans, with what reflection reports about them.    *)
(***************************************************************************)
TMemory == "*memory.Memory"
TSvcDI == "*service.applicationService"
TSvcPlain == "*service.ApplicationService"
TApp == "*api.application"
TNil == "<nil>"
\* the struct itself, for a bean handed over by value
TSvcVal == "service.applicationService"
\* the utilities the host registers
TConfig == "*config.Config"
TValidate == "*validator.Validate"

IDatastore == "datastore.DatastoreInterface"
IAppService == "service.ApplicationServiceInterface"

BeanTypes == {TMemory, TSvcDI, TSvcPlain, TApp}
Interfaces == {IDatastore, IAppService}

\* reflect.Type.Implements: the interfaces a concrete type satisfies
Implements(T, I) ==
    \/ T = TMemory /\ I = IDatastore
    \/ T \in {TSvcDI, TSvcPlain} /\ I = IAppService

\* reflect.Type.AssignableTo
AssignableTo(T, F) == T = F \/ (F \in Interfaces /\ Implements(T, F))

\* a struct tag: whether the key `inject` is present, and its value
NoTag == [present |-> FALSE, value |-> ""]
Tag(s) == [present |-> TRUE, value |-> s]
\* reflect.StructTag.Get: "" both for an absent key and for an empty value
TagGet(tag) == IF tag.present THEN tag.value ELSE ""

\* the fields of the struct a bean type points to, in declaration order
StructFields(T) ==
    CASE T \in {TSvcDI, TSvcVal} ->
           << [name |-> "Store", type |-> IDatastore,
               tag |-> Tag("datastore"), exported |-> TRUE] >>
      [] T = TApp ->
           << [name |-> "ApplicationService", type |-> IAppService,
               tag |-> Tag(""), exported |-> TRUE],
              [name |-> "handler", type |-> "*handler.ApplicationHandler",
               tag |-> NoTag, exported |-> FALSE] >>
      [] T = TSvcPlain ->
           << [name |-> "datastore", type |-> IDatastore,
               tag |-> NoTag, exported |-> FALSE] >>
      [] OTHER -> << >>

\* reflect.Value.Kind is Struct, after the Elem() of a pointer: for the
\* pointers to structs and the struct held by value; the nil interface and
\* the Elem() of a nil pointer have no kind
IsStruct(T) == T \in BeanTypes \cup {TSvcVal, TConfig, TValidate}

(***************************************************************************)
(* Values: a Go interface value is its dynamic type and the identity of    *)
(* the object it points to.                                                *)
(***************************************************************************)
NilValue == [type |-> TNil, id |-> 0]
Mem == [type |-> TMemory, id |-> 1]
SvcDI == [type |-> TSvcDI, id |-> 2]
App == [type |-> TApp, id |-> 3]
SvcPlain == [type |-> TSvcPlain, id |-> 4]

\* a struct held by value in the interface, and a typed nil pointer
SvcVal == [type |-> TSvcVal, id |-> 5]
NilPtr == [type |-> TSvcDI, id |-> 0]

\* s.config and validator.New(): no field of theirs has an inject tag
Cfg == [type |-> TConfig, id |-> 6]
Validator == [type |-> TValidate, id |-> 7]
\* a second datastore object of the type of Mem
Mem2 == [type |-> TMemory, id |-> 8]

\* the objects the host has made before it registers them
HostValues == {Mem, SvcDI, App, SvcPlain}
HostObjects == HostValues \cup {SvcVal, Cfg, Validator, Mem2}
NumHostObjects == Cardinality(HostObjects)

\* fmt.Sprintf("%T", bean) and reflect.TypeOf(bean).String()
TypeString(v) == v.type

InputNames == {"", "datastore"}

\* zero value of the struct an object of type T points to
ZeroStruct(T) ==
    LET fs == StructFields(T)
    IN [n \in {fs[i].name : i \in 1..Len(fs)} |-> NilValue]

EmptyMap == [x \in {} |-> x]
\* mutant: the map is made anew for the entry
Put_Replace(m, k, v) == [x \in {k} |-> v]
\* `m[k] = v` on a Go map
Put(m, k, v) == [x \in DOMAIN m \cup {k} |-> IF x = k THEN v ELSE m[x]]

(***************************************************************************)
(* Lifecycle (container.go)                                                *)
(***************************************************************************)
Singleton == 0
Prototype == 1
Session == 2
Request == 3
Lifecycles == {Singleton, Prototype, Session, Request}

NoFactory == "nil"
\* the factory the host passes to RegisterFactory: a constructor
Factories == {"NewApplicationServiceForDI"}
FactoryType(f) == TSvcDI

VARIABLES
    impl,      \* "simple": SimpleContainer, "di": DIContainer
    beans,     \* c.beans: name -> value (simple) / name -> Bean (di)
    services,  \* DIContainer.services: type -> value
    mu,        \* the sync.RWMutex: writer (0 = none) and the set of readers
    th,        \* per goroutine: where it is in the method it is executing
    heap,      \* object id -> field name -> value
    nextObj,   \* id of the next object a factory allocates
    last,      \* the return of a container method made by the step just
               \* taken (NoReturn when the step was not a return)
    reg,       \* history: requested name -> value of the successful
               \* Provide/ProvideWithName calls since the last Clear/Close
    stored,    \* history: name -> the instance a successful registration
               \* stored under it, since the last Clear/Close
    populated, \* history: a Populate has returned since the last Clear/Close
    srv        \* the host's Server: where Start is, the phases of
               \* initContainer that have succeeded, the calls of Populate
               \* it has made, whether ListenAndServe has been reached

vars ==
    <<impl, beans, services, mu, th, heap, nextObj, last, reg, stored,
      populated, srv>>

IdleFrame ==
    [pc |-> "idle", op |-> "", name |-> "", val |-> NilValue,
     lc |-> Singleton, fac |-> NoFactory, batch |-> << >>, caller |-> "",
     visited |-> {}, cur |-> "", fld |-> 0, stage |-> 0]

\* what a method hands back: a value and a flag (ok = FALSE: not found, an
\* error, or a panic that leaves the method); vals is a returned slice.
\* The caller is recorded for Populate, whose callers are told apart.
Caller(o, t) == IF o = "Populate" THEN t ELSE 0
NoReturn ==
    [op |-> "", t |-> 0, name |-> "", val |-> NilValue, ok |-> TRUE,
     vals |-> << >>]
Return(o, t, n, v, k) ==
    [op |-> o, t |-> Caller(o, t), name |-> n, val |-> v, ok |-> k,
     vals |-> << >>]
ReturnAll(o, t, n, vs, k) ==
    [op |-> o, t |-> Caller(o, t), name |-> n, val |-> NilValue, ok |-> k,
     vals |-> vs]

\* server.New: Start has not been called
NewServer ==
    [pc |-> "new", waits |-> FALSE, done |-> << >>, calls |-> 0,
     up |-> FALSE]

\* NewContainer / New
Init ==
    /\ impl \in {"simple", "di"}
    /\ beans = EmptyMap
    /\ services = EmptyMap
    /\ mu = [writer |-> 0, readers |-> {}]
    /\ th = [t \in Threads |-> IdleFrame]
    /\ heap = [i \in 1..NumHostObjects |->
                 ZeroStruct((CHOOSE v \in HostObjects : v.id = i).type)]
    /\ nextObj = NumHostObjects + 1
    /\ last = NoReturn
    /\ reg = EmptyMap
    /\ stored = EmptyMap
    /\ populated = FALSE
    /\ srv = NewServer

(***************************************************************************)
(* sync.RWMutex                                                            *)
(***************************************************************************)
CanLock == mu.writer = 0 /\ mu.readers = {}
\* mutant: RLock does not wait for the writer
CanRLock_Always == TRUE
CanRLock == mu.writer = 0
Locked(t) == [mu EXCEPT !.writer = t]
Unlocked == [mu EXCEPT !.writer = 0]
RLocked(t) == [mu EXCEPT !.readers = @ \cup {t}]
RUnlocked(t) == [mu EXCEPT !.readers = @ \ {t}]

\* the host runs at most MaxLookups lookups at a time
MayLookup == Cardinality(mu.readers) < MaxLookups

\* the stored value of a map entry
BeanValue(b) == IF impl = "simple" THEN b ELSE b.Value
\* len(c.beans)
Count == Cardinality(DOMAIN beans)

\* the host stops registering new beans at MaxBeans
MayRegister == Count < MaxBeans

(***************************************************************************)
(* SimpleContainer: registration                                           *)
(***************************************************************************)
\* mutant: the registration injects what the registry holds into the
\* marked fields of the bean
HeapAfterStore_Wired(v) ==
    IF v.type \notin BeanTypes \/ v.id = 0 THEN heap
    ELSE LET fs == StructFields(v.type)
             dep(j) == beans[TagGet(fs[j].tag)]
             hit(fn) == {j \in 1..Len(fs) :
                           /\ fs[j].name = fn
                           /\ fs[j].exported
                           /\ TagGet(fs[j].tag) \in DOMAIN beans}
         IN [heap EXCEPT ![v.id] =
               [fn \in DOMAIN @ |->
                  IF hit(fn) = {} THEN @[fn]
                  ELSE BeanValue(dep(CHOOSE j \in hit(fn) : TRUE))]]
\* `c.beans[name] = bean` stores the reference: the object the bean points
\* to is as it was
HeapAfterStore(v) == heap

Call(t, o, n, v, c) ==
    [th EXCEPT ![t] = [IdleFrame EXCEPT !.pc = "locked", !.op = o,
                                        !.name = n, !.val = v, !.caller = c]]

\* ProvideWithName up to c.mu.Lock()
ProvideWithNameEnter(t, n, v) ==
    /\ impl = "simple"
    /\ th[t].pc = "idle"
    /\ CanLock
    /\ mu' = Locked(t)
    /\ th' = Call(t, "ProvideWithName", n, v, "")
    /\ last' = NoReturn
    /\ UNCHANGED <<impl, beans, services, heap, nextObj, reg, stored,
                 populated>>

\* a call of ProvideWithName by a goroutine other than the one in Start
ProvideWithNameLock(t, n, v) ==
    /\ MayRegister
    /\ ProvideWithNameEnter(t, n, v)
    /\ UNCHANGED srv

\* mutant: the duplicate check never fires
Exists_Never(name) == FALSE
\* `_, exists := c.beans[name]`
Exists(name) == name \in DOMAIN beans

\* mutant: the given name is ignored
EffectiveName_TypeOnly(n, v) == TypeString(v)
\* the name ProvideWithName stores a bean under
EffectiveName(n, v) == IF n = "" THEN TypeString(v) ELSE n

\* mutant: Provides goes on with the next bean after an error
AfterProvide_GoOn(t, ok) ==
    LET f == th[t]
    IN CASE f.caller = "Provides" ->
              /\ th' = [th EXCEPT ![t] = [IdleFrame EXCEPT !.pc = "provides",
                                           !.op = "Provides",
                                           !.batch = f.batch]]
              /\ last' = NoReturn
         [] f.caller \in {"Register", "RegisterAs"} ->
              /\ th' = [th EXCEPT ![t] = IdleFrame]
              /\ last' = Return(f.caller, t, f.name, f.val, TRUE)
         [] OTHER ->
              /\ th' = [th EXCEPT ![t] = IdleFrame]
              /\ last' = Return(f.op, t, f.name, f.val, ok)
\* what the caller of the method that called ProvideWithName/Provide sees
\* when that call returns ok: Provides continues with the next bean, the
\* legacy Register/RegisterAs drop the error
AfterProvide(t, ok) ==
    LET f == th[t]
    IN CASE f.caller = "Provides" /\ ok ->
              /\ th' = [th EXCEPT ![t] = [IdleFrame EXCEPT !.pc = "provides",
                                           !.op = "Provides",
                                           !.batch = f.batch]]
              /\ last' = NoReturn
         [] f.caller = "Provides" /\ ~ok ->
              /\ th' = [th EXCEPT ![t] = IdleFrame]
              /\ last' = Return("Provides", t, "", f.val, FALSE)
         [] f.caller \in {"Register", "RegisterAs"} ->
              /\ th' = [th EXCEPT ![t] = IdleFrame]
              /\ last' = Return(f.caller, t, f.name, f.val, TRUE)
         [] OTHER ->
              /\ th' = [th EXCEPT ![t] = IdleFrame]
              /\ last' = Return(f.op, t, f.name, f.val, ok)

\* the rest of ProvideWithName
ProvideWithNameRest(t) ==
    LET f == th[t]
        name == EffectiveName(f.name, f.val)
        exists == Exists(name)
    IN /\ impl = "simple"
       /\ f.pc = "locked"
       /\ f.op = "ProvideWithName"
       /\ beans' = IF exists THEN beans ELSE Put(beans, name, f.val)
       /\ mu' = Unlocked
       /\ reg' = IF ~exists /\ f.caller = "" THEN Put(reg, f.name, f.val)
                 ELSE reg
       /\ stored' = IF exists THEN stored ELSE Put(stored, name, f.val)
       /\ heap' = HeapAfterStore(f.val)
       /\ AfterProvide(t, ~exists)
       /\ UNCHANGED <<impl, services, nextObj, populated>>

\* the rest of a ProvideWithName that initContainer is not waiting for
ProvideWithNameBody(t) ==
    /\ ProvideWithNameRest(t)
    /\ UNCHANGED srv

\* the argument lists of Provides
RECURSIVE SeqsUpTo(_, _)
SeqsUpTo(S, n) ==
    IF n = 0 THEN {<< >>}
    ELSE LET shorter == SeqsUpTo(S, n - 1)
         IN shorter \cup {Append(q, x) : q \in shorter, x \in S}
Batches == SeqsUpTo({SvcDI, App}, MaxBatch)

\* Provides: the call
ProvidesEnter(t, bs) ==
    /\ impl = "simple"
    /\ th[t].pc = "idle"
    /\ th' = [th EXCEPT ![t] = [IdleFrame EXCEPT !.pc = "provides",
                                  !.op = "Provides", !.batch = bs]]
    /\ last' = NoReturn
    /\ UNCHANGED <<impl, beans, services, mu, heap, nextObj, reg, stored,
                 populated>>

\* a call of Provides by a goroutine other than the one in Start
ProvidesCall(t, bs) ==
    /\ MayRegister
    /\ ProvidesEnter(t, bs)
    /\ UNCHANGED srv

\* Provides: one turn of the loop, up to the c.mu.Lock() of the
\* ProvideWithName("", bean) it calls, or the return nil after the loop
ProvidesTurn(t) ==
    LET f == th[t]
    IN /\ impl = "simple"
       /\ f.pc = "provides"
       /\ IF f.batch = << >>
          THEN /\ th' = [th EXCEPT ![t] = IdleFrame]
               /\ last' = Return("Provides", t, "", NilValue, TRUE)
               /\ mu' = mu
          ELSE /\ CanLock
               /\ mu' = Locked(t)
               /\ th' = [th EXCEPT ![t] = [IdleFrame EXCEPT !.pc = "locked",
                            !.op = "ProvideWithName", !.name = "",
                            !.val = Head(f.batch), !.batch = Tail(f.batch),
                            !.caller = "Provides"]]
               /\ last' = NoReturn
       /\ UNCHANGED <<impl, beans, services, heap, nextObj, reg, stored,
                 populated>>

\* a turn of a Provides that initContainer is not waiting for
ProvidesNext(t) ==
    /\ ProvidesTurn(t)
    /\ UNCHANGED srv

(***************************************************************************)
(* Legacy registration of both containers                                  *)
(***************************************************************************)
\* the method the legacy methods delegate to
ProvideOp == IF impl = "simple" THEN "ProvideWithName" ELSE "Provide"

\* Register(service): up to the Lock of the Provide call it makes
RegisterLock(t, v) ==
    /\ th[t].pc = "idle"
    /\ MayRegister
    /\ CanLock
    /\ mu' = Locked(t)
    /\ th' = Call(t, ProvideOp, TypeString(v), v, "Register")
    /\ last' = NoReturn
    /\ UNCHANGED <<srv, impl, beans, services, heap, nextObj, reg, stored,
                 populated>>

\* RegisterAs(service, (*I)(nil)): up to the Lock of the Provide call
RegisterAsLock(t, v, i) ==
    /\ th[t].pc = "idle"
    /\ MayRegister
    /\ CanLock
    /\ mu' = Locked(t)
    /\ th' = Call(t, ProvideOp, i, v, "RegisterAs")
    /\ last' = NoReturn
    /\ UNCHANGED <<srv, impl, beans, services, heap, nextObj, reg, stored,
                 populated>>

(***************************************************************************)
(* DIContainer: registration                                               *)
(***************************************************************************)
\* mutant: the factory is not kept
Bean_NoFactory(n, v, lc, fac) ==
    [Name |-> n, Value |-> v, Type |-> v.type, Lifecycle |-> lc,
     Factory |-> NoFactory]
\* the Bean struct (Tags is always the empty map and never read)
Bean(n, v, lc, fac) ==
    [Name |-> n, Value |-> v, Type |-> v.type, Lifecycle |-> lc,
     Factory |-> fac]

ProvideLock(t, n, v) ==
    /\ impl = "di"
    /\ th[t].pc = "idle"
    /\ MayRegister
    /\ CanLock
    /\ mu' = Locked(t)
    /\ th' = Call(t, "Provide", n, v, "")
    /\ last' = NoReturn
    /\ UNCHANGED <<srv, impl, beans, services, heap, nextObj, reg, stored,
                 populated>>

ProvideBody(t) ==
    LET f == th[t]
        exists == Exists(f.name)
    IN /\ impl = "di"
       /\ f.pc = "locked"
       /\ f.op = "Provide"
       /\ beans' = IF exists THEN beans
                   ELSE Put(beans, f.name, Bean(f.name, f.val, Singleton, NoFactory))
       /\ services' = IF exists THEN services
                      ELSE Put(services, f.val.type, f.val)
       /\ mu' = Unlocked
       /\ reg' = IF ~exists /\ f.caller = "" THEN Put(reg, f.name, f.val)
                 ELSE reg
       /\ stored' = IF exists THEN stored ELSE Put(stored, f.name, f.val)
       /\ heap' = HeapAfterStore(f.val)
       /\ AfterProvide(t, ~exists)
       /\ UNCHANGED <<srv, impl, nextObj, populated>>

RegisterWithLifecycleLock(t, n, v, lc) ==
    /\ impl = "di"
    /\ th[t].pc = "idle"
    /\ MayRegister
    /\ CanLock
    /\ mu' = Locked(t)
    /\ th' = [th EXCEPT ![t] = [IdleFrame EXCEPT !.pc = "locked",
                 !.op = "RegisterWithLifecycle", !.name = n, !.val = v,
                 !.lc = lc]]
    /\ last' = NoReturn
    /\ UNCHANGED <<srv, impl, beans, services, heap, nextObj, reg, stored,
                 populated>>

RegisterWithLifecycleBody(t) ==
    LET f == th[t]
        exists == Exists(f.name)
    IN /\ impl = "di"
       /\ f.pc = "locked"
       /\ f.op = "RegisterWithLifecycle"
       /\ beans' = IF exists THEN beans
                   ELSE Put(beans, f.name, Bean(f.name, f.val, f.lc, NoFactory))
       /\ mu' = Unlocked
       /\ th' = [th EXCEPT ![t] = IdleFrame]
       /\ last' = Return(f.op, t, f.name, f.val, ~exists)
       /\ stored' = IF exists THEN stored ELSE Put(stored, f.name, f.val)
       /\ UNCHANGED <<srv, impl, services, heap, nextObj, reg, populated>>

\* goroutines inside a method
Busy == {t \in Threads : th[t].pc # "idle"}
\* the host stops calling when MaxFactoryCalls factory-made objects exist
\* or may come to exist through the calls in progress
FactoryBudget ==
    nextObj + Cardinality(Busy) <= NumHostObjects + MaxFactoryCalls

\* the host asks for no Prototype bean once MaxFactoryCalls factory-made
\* objects exist
FactoryRoom == nextObj <= NumHostObjects + MaxFactoryCalls

\* factory(): a constructor; returns a pointer to a new zero struct
FactoryNew(fac) == [type |-> FactoryType(fac), id |-> nextObj]

\* mutant: the new struct comes with its marked fields set to the beans
\* registered under the names of their tags
FactoryOutput_Wired(T) ==
    LET fs == StructFields(T)
        hit(fn) == {j \in 1..Len(fs) :
                      /\ fs[j].name = fn
                      /\ fs[j].exported
                      /\ TagGet(fs[j].tag) \in DOMAIN beans}
    IN [fn \in {fs[i].name : i \in 1..Len(fs)} |->
          IF hit(fn) = {} THEN NilValue
          ELSE beans[TagGet(fs[CHOOSE j \in hit(fn) : TRUE].tag)].Value]
\* the struct the factory has made: &applicationService{}, no field set
FactoryOutput(T) == ZeroStruct(T)

RegisterFactoryLock(t, n, fac, lc) ==
    /\ impl = "di"
    /\ th[t].pc = "idle"
    /\ MayRegister
    /\ FactoryBudget
    /\ CanLock
    /\ mu' = Locked(t)
    /\ th' = [th EXCEPT ![t] = [IdleFrame EXCEPT !.pc = "locked",
                 !.op = "RegisterFactory", !.name = n, !.fac = fac,
                 !.lc = lc]]
    /\ last' = NoReturn
    /\ UNCHANGED <<srv, impl, beans, services, heap, nextObj, reg, stored,
                 populated>>

RegisterFactoryBody(t) ==
    LET f == th[t]
        exists == Exists(f.name)
        instance == FactoryNew(f.fac)
    IN /\ impl = "di"
       /\ f.pc = "locked"
       /\ f.op = "RegisterFactory"
       /\ IF exists
          THEN UNCHANGED <<beans, heap, nextObj>>
          ELSE /\ beans' = Put(beans, f.name,
                               Bean(f.name, instance, f.lc, f.fac))
               /\ heap' = Put(heap, instance.id, FactoryOutput(instance.type))
               /\ nextObj' = nextObj + 1
       /\ mu' = Unlocked
       /\ th' = [th EXCEPT ![t] = IdleFrame]
       /\ last' = Return(f.op, t, f.name,
                         IF exists THEN NilValue ELSE instance, ~exists)
       /\ stored' = IF exists THEN stored ELSE Put(stored, f.name, instance)
       /\ UNCHANGED <<srv, impl, services, reg, populated>>

(***************************************************************************)
(* Clear (SimpleContainer) / Close (DIContainer; its Clear calls Close)    *)
(***************************************************************************)
\* Clear / Close up to c.mu.Lock()
ClearEnter(t) ==
    /\ th[t].pc = "idle"
    /\ CanLock
    /\ mu' = Locked(t)
    /\ th' = Call(t, IF impl = "simple" THEN "Clear" ELSE "Close",
                  "", NilValue, "")
    /\ last' = NoReturn
    /\ UNCHANGED <<impl, beans, services, heap, nextObj, reg, stored,
                 populated>>

\* a call of Clear / Close that is not made by Shutdown
ClearLock(t) ==
    /\ ClearEnter(t)
    /\ UNCHANGED srv

\* mutant: the map is kept
Cleared_Keep == beans
\* `c.beans = make(map[string]...)`
Cleared == EmptyMap
\* mutant: the type index is kept
ServicesCleared_Keep == services
\* `c.services = make(map[reflect.Type]interface{})`
ServicesCleared == EmptyMap

ClearBody(t) ==
    LET f == th[t]
    IN /\ f.pc = "locked"
       /\ f.op \in {"Clear", "Close"}
       /\ beans' = Cleared
       /\ services' = ServicesCleared
       /\ reg' = EmptyMap
       /\ stored' = EmptyMap
       /\ mu' = Unlocked
       /\ th' = [th EXCEPT ![t] = IdleFrame]
       /\ last' = Return(f.op, t, "", NilValue, TRUE)
       /\ populated' = FALSE
       /\ UNCHANGED <<srv, impl, heap, nextObj>>

(***************************************************************************)
(* Lookup                                                                  *)
(***************************************************************************)
\* the names the host looks up; a goroutine's argument shows to nobody
\* before its method reads the map, so it is drawn in the ...Body action
GetNames == InputNames \cup {TSvcDI}

\* SimpleContainer.Get between RLock and RUnlock: <<value, found>>
SimpleGet(n) ==
    IF n \in DOMAIN beans THEN <<beans[n], TRUE>> ELSE <<NilValue, FALSE>>

\* what a caller gets when the method panics
PanicValue == [type |-> "panic", id |-> 0]
\* the loop comes to `reflect.TypeOf(bean).Implements(beanType)` with a nil
\* bean, whose reflect.TypeOf is nil, when beanType is an interface and no
\* match was visited before: the call panics
GetByTypeMayPanic(beanType) ==
    /\ beanType \in Interfaces
    /\ \E n \in DOMAIN beans : beans[n].type = TNil
\* the two tests of the loop of GetByType
TypeMatches(v, beanType) ==
    \/ v.type = beanType
    \/ beanType \in Interfaces /\ Implements(v.type, beanType)
\* SimpleContainer.GetByType between RLock and RUnlock, when it returns:
\* the first match in the (unspecified) iteration order of the map, i.e.
\* any match
SimpleGetByType(beanType) ==
    LET hits == {n \in DOMAIN beans : TypeMatches(beans[n], beanType)}
    IN IF hits # {} THEN {<<beans[n], TRUE>> : n \in hits}
       ELSE IF GetByTypeMayPanic(beanType) THEN {}
       ELSE {<<NilValue, FALSE>>}

\* whether DIContainer.Get invokes bean.Factory
CallsFactory(n) ==
    /\ n \in DOMAIN beans
    /\ beans[n].Lifecycle = Prototype
    /\ beans[n].Factory # NoFactory

\* mutant: the Prototype case returns the stored instance
DIGet_StoredOnly(n) ==
    IF n \notin DOMAIN beans THEN <<NilValue, FALSE>>
    ELSE <<beans[n].Value, TRUE>>
\* mutant: the factory is invoked whatever the lifecycle
DIGet_FactoryAlways(n) ==
    IF n \notin DOMAIN beans THEN <<NilValue, FALSE>>
    ELSE IF beans[n].Factory # NoFactory
         THEN <<FactoryNew(beans[n].Factory), TRUE>>
         ELSE <<beans[n].Value, TRUE>>
\* mutant: the default case of the switch invokes the factory as well
DIGet_DefaultFactory(n) ==
    IF n \notin DOMAIN beans THEN <<NilValue, FALSE>>
    ELSE IF beans[n].Lifecycle # Singleton /\ beans[n].Factory # NoFactory
         THEN <<FactoryNew(beans[n].Factory), TRUE>>
         ELSE <<beans[n].Value, TRUE>>
\* DIContainer.Get between RLock and RUnlock: <<value, found>>
DIGet(n) ==
    IF n \notin DOMAIN beans THEN <<NilValue, FALSE>>
    ELSE CASE beans[n].Lifecycle = Singleton -> <<beans[n].Value, TRUE>>
           [] beans[n].Lifecycle = Prototype ->
                IF beans[n].Factory # NoFactory
                THEN <<FactoryNew(beans[n].Factory), TRUE>>
                ELSE <<beans[n].Value, TRUE>>
           [] OTHER -> <<beans[n].Value, TRUE>>

(***************************************************************************)
(* injectDependencies                                                      *)
(***************************************************************************)
\* reflect.ValueOf(target), Elem() of a pointer, and the fields when the
\* kind is Struct; no fields otherwise (return nil)
TargetFields(v) ==
    IF IsStruct(v.type) /\ v.id # 0 THEN StructFields(v.type) ELSE << >>

\* mutant: every field counts as settable
CanSet_Always(v, fd) == TRUE
\* reflect.Value.CanSet: addressable (reached through a pointer) and exported
CanSet(v, fd) == v.type \in BeanTypes /\ fd.exported

\* the first field at index >= i that passes both `continue` tests of the
\* loop (injectTag == "" and !field.CanSet()), 0 when there is none
NextEligible(v, i) ==
    LET fs == TargetFields(v)
        ok == {j \in i..Len(fs) :
                 TagGet(fs[j].tag) # "" /\ CanSet(v, fs[j])}
    IN IF ok = {} THEN 0 ELSE CHOOSE j \in ok : \A k \in ok : j <= k

\* the key of the first lookup for a field: SimpleContainer looks up by
\* type when the tag is empty and by the tag otherwise, DIContainer always
\* by the tag
ByType(fd) == impl = "simple" /\ TagGet(fd.tag) = ""
FirstKey(fd) == IF ByType(fd) THEN fd.type ELSE TagGet(fd.tag)

\* the frame of goroutine t when injectDependencies goes on with field i of
\* bean n: at the RLock of the lookup for the next eligible field, or back
\* in the loop of Populate when there is none
InjectFrom(t, n, i) ==
    LET v == BeanValue(beans[n])
        j == NextEligible(v, i)
    IN IF j = 0
       THEN [th[t] EXCEPT !.pc = "locked", !.visited = @ \cup {n},
                          !.cur = "", !.fld = 0, !.stage = 0, !.name = ""]
       ELSE [th[t] EXCEPT !.pc = "get_rlock", !.cur = n, !.fld = j,
                          !.stage = 1,
                          !.name = FirstKey(TargetFields(v)[j])]

\* Populate up to c.mu.Lock()
PopulateEnter(t) ==
    /\ th[t].pc = "idle"
    /\ CanLock
    /\ mu' = Locked(t)
    /\ th' = Call(t, "Populate", "", NilValue, "")
    /\ last' = NoReturn
    /\ UNCHANGED <<impl, beans, services, heap, nextObj, reg, stored,
                 populated>>

\* a call of Populate by a goroutine other than the one in Start
PopulateLock(t) ==
    /\ PopulateEnter(t)
    /\ UNCHANGED srv

\* mutant: Populate hands back an emptied registry
PopulateTurn_Empties(t) ==
    LET f == th[t]
        todo == DOMAIN beans \ f.visited
    IN /\ f.pc = "locked"
       /\ f.op = "Populate"
       /\ IF todo = {}
          THEN /\ mu' = Unlocked
               /\ th' = [th EXCEPT ![t] = IdleFrame]
               /\ last' = Return("Populate", t, "", NilValue, TRUE)
               /\ populated' = TRUE
               /\ beans' = EmptyMap
          ELSE /\ \E n \in todo : th' = [th EXCEPT ![t] = InjectFrom(t, n, 1)]
               /\ mu' = mu
               /\ last' = NoReturn
               /\ populated' = populated
               /\ beans' = beans
       /\ UNCHANGED <<impl, services, heap, nextObj, reg, stored>>
\* Populate: one turn of `for name, bean := range c.beans` (any bean not
\* yet visited), running injectDependencies up to its first lookup; after
\* the loop, the deferred Unlock and return nil
PopulateTurn(t) ==
    LET f == th[t]
        todo == DOMAIN beans \ f.visited
    IN /\ f.pc = "locked"
       /\ f.op = "Populate"
       /\ IF todo = {}
          THEN /\ mu' = Unlocked
               /\ th' = [th EXCEPT ![t] = IdleFrame]
               /\ last' = Return("Populate", t, "", NilValue, TRUE)
               /\ populated' = TRUE
          ELSE /\ \E n \in todo : th' = [th EXCEPT ![t] = InjectFrom(t, n, 1)]
               /\ mu' = mu
               /\ last' = NoReturn
               /\ populated' = populated
       /\ UNCHANGED <<impl, beans, services, heap, nextObj, reg, stored>>

\* a turn of a Populate that initContainer is not waiting for
PopulateStep(t) ==
    /\ PopulateTurn(t)
    /\ UNCHANGED srv

\* Get (and the lookups of injectDependencies) up to c.mu.RLock()
GetRLock(t) ==
    /\ th[t].pc \in {"idle", "get_rlock"}
    /\ CanRLock
    /\ mu' = RLocked(t)
    /\ IF th[t].pc = "idle"
       THEN /\ MayLookup
            /\ th' = Call(t, "Get", "", NilValue, "")
       ELSE th' = [th EXCEPT ![t].pc = "get_locked"]
    /\ last' = NoReturn
    /\ UNCHANGED <<srv, impl, beans, services, heap, nextObj, reg, stored,
                 populated>>

\* the rest of Get: the read of the map, the deferred RUnlock, the return;
\* when injectDependencies made the call it goes on with the result: the
\* second lookup by type name (SimpleContainer), the assignability check,
\* field.Set, and the next field
GetBody(t) ==
    LET f == th[t]
        nested == f.pc = "get_locked"
        fd == TargetFields(BeanValue(beans[f.cur]))[f.fld]
        names == IF nested THEN {f.name} ELSE GetNames
    IN /\ \/ f.pc = "locked" /\ f.op = "Get"
          \/ nested
       /\ mu' = RUnlocked(t)
       /\ \E name \in names :
            LET results ==
                    IF impl = "di" THEN {DIGet(name)}
                    ELSE IF nested /\ f.stage = 1 /\ ByType(fd)
                         THEN SimpleGetByType(name)
                         ELSE {SimpleGet(name)}
            IN /\ impl = "di" /\ CallsFactory(name) => FactoryRoom
               /\ \E r \in results :
                    LET dep == r[1]
                        found == r[2]
                        made == found /\ dep.id = nextObj
                        heap1 == IF made
                                 THEN Put(heap, dep.id, FactoryOutput(dep.type))
                                 ELSE heap
                        obj == BeanValue(beans[f.cur]).id
                    IN /\ nextObj' = IF made THEN nextObj + 1 ELSE nextObj
                       /\ IF ~nested
                          THEN /\ th' = [th EXCEPT ![t] = IdleFrame]
                               /\ last' = Return("Get", t, name, dep, found)
                               /\ heap' = heap1
                          ELSE /\ last' = NoReturn
                               /\ IF impl = "simple" /\ ~found /\ f.stage = 1
                                  THEN /\ th' = [th EXCEPT
                                                   ![t].pc = "get_rlock",
                                                   ![t].stage = 2,
                                                   ![t].name = fd.type]
                                       /\ heap' = heap1
                                  ELSE /\ th' = [th EXCEPT ![t] =
                                              InjectFrom(t, f.cur, f.fld + 1)]
                                       /\ heap' =
                                            IF /\ found
                                               /\ AssignableTo(dep.type,
                                                               fd.type)
                                            THEN [heap1 EXCEPT
                                                    ![obj][fd.name] = dep]
                                            ELSE heap1
       /\ UNCHANGED <<srv, impl, beans, services, reg, stored, populated>>

(***************************************************************************)
(* Introspection: HasBean and Count of both containers                     *)
(***************************************************************************)
\* an int as a return value
IntValue(k) == [type |-> "int", id |-> k]

\* the names the host asks HasBean for
HasNames == {"datastore"}

HasBeanRLock(t) ==
    /\ th[t].pc = "idle"
    /\ MayLookup
    /\ CanRLock
    /\ mu' = RLocked(t)
    /\ th' = Call(t, "HasBean", "", NilValue, "")
    /\ last' = NoReturn
    /\ UNCHANGED <<srv, impl, beans, services, heap, nextObj, reg, stored,
                 populated>>

HasBeanBody(t) ==
    LET f == th[t]
    IN /\ f.pc = "locked"
       /\ f.op = "HasBean"
       /\ mu' = RUnlocked(t)
       /\ th' = [th EXCEPT ![t] = IdleFrame]
       /\ \E name \in HasNames :
             last' = Return("HasBean", t, name, NilValue, Exists(name))
       /\ UNCHANGED <<srv, impl, beans, services, heap, nextObj, reg, stored,
                 populated>>

CountRLock(t) ==
    /\ th[t].pc = "idle"
    /\ MayLookup
    /\ CanRLock
    /\ mu' = RLocked(t)
    /\ th' = Call(t, "Count", "", NilValue, "")
    /\ last' = NoReturn
    /\ UNCHANGED <<srv, impl, beans, services, heap, nextObj, reg, stored,
                 populated>>

CountBody(t) ==
    LET f == th[t]
    IN /\ f.pc = "locked"
       /\ f.op = "Count"
       /\ mu' = RUnlocked(t)
       /\ th' = [th EXCEPT ![t] = IdleFrame]
       /\ last' = Return("Count", t, "", IntValue(Count), TRUE)
       /\ UNCHANGED <<srv, impl, beans, services, heap, nextObj, reg, stored,
                 populated>>

(***************************************************************************)
(* SimpleContainer: GetByType and ListBeans                                *)
(***************************************************************************)
\* the reflect.Type values the host queries: an interface and a concrete type
QueryTypes == {IAppService, TSvcDI}

\* `bean.Type == beanType || bean.Type.Implements(beanType)` panics: a nil
\* bean.Type (bean registered as nil) has no Implements to call, and
\* the orders in which `range c.beans` may visit the keys S
Orderings(S) ==
    {s \in [1..Cardinality(S) -> S] :
        \A i, j \in 1..Cardinality(S) : i # j => s[i] # s[j]}

GetByTypeRLock(t) ==
    /\ impl = "simple"
    /\ th[t].pc = "idle"
    /\ MayLookup
    /\ CanRLock
    /\ mu' = RLocked(t)
    /\ th' = Call(t, "GetByType", "", NilValue, "")
    /\ last' = NoReturn
    /\ UNCHANGED <<srv, impl, beans, services, heap, nextObj, reg, stored,
                 populated>>

GetByTypeBody(t) ==
    LET f == th[t]
    IN /\ impl = "simple"
       /\ f.pc = "locked"
       /\ f.op = "GetByType"
       /\ mu' = RUnlocked(t)
       /\ th' = [th EXCEPT ![t] = IdleFrame]
       /\ \E beanType \in QueryTypes :
             \/ \E r \in SimpleGetByType(beanType) :
                   last' = Return(f.op, t, beanType, r[1], r[2])
             \/ /\ GetByTypeMayPanic(beanType)
                /\ last' = Return(f.op, t, beanType, PanicValue, FALSE)
       /\ UNCHANGED <<srv, impl, beans, services, heap, nextObj, reg, stored,
                 populated>>

ListBeansRLock(t) ==
    /\ impl = "simple"
    /\ th[t].pc = "idle"
    /\ MayLookup
    /\ CanRLock
    /\ mu' = RLocked(t)
    /\ th' = Call(t, "ListBeans", "", NilValue, "")
    /\ last' = NoReturn
    /\ UNCHANGED <<srv, impl, beans, services, heap, nextObj, reg, stored,
                 populated>>

\* the names, in the order `range c.beans` visits them
ListBeansBody(t) ==
    LET f == th[t]
    IN /\ impl = "simple"
       /\ f.pc = "locked"
       /\ f.op = "ListBeans"
       /\ mu' = RUnlocked(t)
       /\ th' = [th EXCEPT ![t] = IdleFrame]
       /\ \E order \in Orderings(DOMAIN beans) :
             last' = ReturnAll(f.op, t, "", order, TRUE)
       /\ UNCHANGED <<srv, impl, beans, services, heap, nextObj, reg, stored,
                 populated>>

(***************************************************************************)
(* DIContainer.GetBeansByType                                              *)
(***************************************************************************)
\* Implements panics when beanType is not an interface type
TypeTestPanics(T, beanType) ==
    \/ T = TNil
    \/ T # beanType /\ beanType \notin Interfaces
\* the value of the same condition when it does not panic
TypeTest(T, beanType) == T = beanType \/ Implements(T, beanType)

GetBeansByTypeRLock(t) ==
    /\ impl = "di"
    /\ th[t].pc = "idle"
    /\ MayLookup
    /\ CanRLock
    /\ mu' = RLocked(t)
    /\ th' = Call(t, "GetBeansByType", "", NilValue, "")
    /\ last' = NoReturn
    /\ UNCHANGED <<srv, impl, beans, services, heap, nextObj, reg, stored,
                 populated>>

\* the loop visits every bean; a panic runs the deferred RUnlock and leaves
\* the method without a result
GetBeansByTypeBody(t) ==
    LET f == th[t]
    IN /\ impl = "di"
       /\ f.pc = "locked"
       /\ f.op = "GetBeansByType"
       /\ mu' = RUnlocked(t)
       /\ th' = [th EXCEPT ![t] = IdleFrame]
       /\ \E beanType \in QueryTypes :
            LET hits == {n \in DOMAIN beans :
                           TypeTest(beans[n].Type, beanType)}
            IN IF \E n \in DOMAIN beans :
                     TypeTestPanics(beans[n].Type, beanType)
               THEN last' = ReturnAll(f.op, t, beanType, << >>, FALSE)
               ELSE \E order \in Orderings(hits) :
                      last' = ReturnAll(f.op, t, beanType,
                                 [i \in 1..Len(order) |->
                                     beans[order[i]].Value],
                                 TRUE)
       /\ UNCHANGED <<srv, impl, beans, services, heap, nextObj, reg, stored,
                 populated>>

(***************************************************************************)
(* Specification                                                           *)
(***************************************************************************)
\* the host registers the datastore under the interface it is used through
RegisterAsInputs == {<<Mem, IDatastore>>}
\* the values the host passes to Register and to RegisterWithLifecycle
LegacyValues == {Mem}
LifecycleValues == {SvcDI}
\* DIContainer.Provide is also handed the nil interface
ProvideValues == HostValues \cup {NilValue}
\* a bean need not be a pointer to a struct: ProvideWithName takes any
\* interface{}, so also a struct by value, an int, the nil interface and a
\* nil pointer
Scalar == IntValue(7)
SimpleValues == HostValues \cup {SvcVal, Scalar, NilValue, NilPtr}

\* the steps of goroutine t that start a call of a container method
Calls(t) ==
    \/ \E n \in InputNames, v \in HostValues : ProvideWithNameLock(t, n, v)
    \/ \E bs \in Batches : ProvidesCall(t, bs)
    \/ \E v \in LegacyValues : RegisterLock(t, v)
    \/ \E p \in RegisterAsInputs : RegisterAsLock(t, p[1], p[2])
    \/ \E n \in InputNames, v \in ProvideValues : ProvideLock(t, n, v)
    \/ \E n \in InputNames, v \in LifecycleValues, lc \in Lifecycles :
          RegisterWithLifecycleLock(t, n, v, lc)
    \/ \E n \in InputNames, fac \in Factories, lc \in Lifecycles :
          RegisterFactoryLock(t, n, fac, lc)
    \/ ClearLock(t)
    \/ PopulateLock(t)
    \/ HasBeanRLock(t)
    \/ CountRLock(t)
    \/ GetBeansByTypeRLock(t)
    \/ GetByTypeRLock(t)
    \/ ListBeansRLock(t)

\* the steps of goroutine t inside a method
Steps(t) ==
    \/ ProvideWithNameBody(t)
    \/ ProvidesNext(t)
    \/ ProvideBody(t)
    \/ RegisterWithLifecycleBody(t)
    \/ RegisterFactoryBody(t)
    \/ ClearBody(t)
    \/ PopulateStep(t)
    \/ GetRLock(t)
    \/ GetBody(t)
    \/ HasBeanBody(t)
    \/ CountBody(t)
    \/ GetBeansByTypeBody(t)
    \/ GetByTypeBody(t)
    \/ ListBeansBody(t)

Next == \E t \in Threads : Calls(t) \/ Steps(t)

Spec == Init /\ [][Next]_vars

\* the steps of goroutine t that go on with the method it is inside
Continue(t) == th[t].pc # "idle" /\ Steps(t)

\* a goroutine that can run is eventually run: a method that has been
\* called goes on whenever the mutex lets it
FairSpec == Spec /\ \A t \in Threads : WF_vars(Continue(t))

(***************************************************************************)
(* Legacy lookups of both containers: Resolve and Has                      *)
(***************************************************************************)
\* the names Resolve and Has look up: the type string of the T in the
\* (*T)(nil) they are passed
ResolveNames == {TMemory, IDatastore}

\* Resolve(serviceType) up to the RLock of the Get it calls
ResolveRLock(t) ==
    /\ th[t].pc = "idle"
    /\ MayLookup
    /\ CanRLock
    /\ mu' = RLocked(t)
    /\ th' = Call(t, "Resolve", "", NilValue, "")
    /\ last' = NoReturn
    /\ UNCHANGED <<srv, impl, beans, services, heap, nextObj, reg, stored,
                 populated>>

\* mutant: Resolve does not look at exists
Found_Always(r) == TRUE
\* `if service, exists := c.Get(name); exists`
Found(r) == r[2]

\* the rest of Resolve: the Get, then (service, nil) or (nil, error)
ResolveBody(t) ==
    LET f == th[t]
    IN /\ f.pc = "locked"
       /\ f.op = "Resolve"
       /\ mu' = RUnlocked(t)
       /\ th' = [th EXCEPT ![t] = IdleFrame]
       /\ \E name \in ResolveNames :
            LET r == IF impl = "di" THEN DIGet(name) ELSE SimpleGet(name)
                made == r[2] /\ r[1].id = nextObj
            IN /\ impl = "di" /\ CallsFactory(name) => FactoryRoom
               /\ nextObj' = IF made THEN nextObj + 1 ELSE nextObj
               /\ heap' = IF made
                          THEN Put(heap, r[1].id, FactoryOutput(r[1].type))
                          ELSE heap
               /\ last' = IF Found(r)
                          THEN Return("Resolve", t, name, r[1], TRUE)
                          ELSE Return("Resolve", t, name, NilValue, FALSE)
       /\ UNCHANGED <<srv, impl, beans, services, reg, stored, populated>>

\* Has(serviceType) up to the RLock of the HasBean it calls
HasRLock(t) ==
    /\ th[t].pc = "idle"
    /\ MayLookup
    /\ CanRLock
    /\ mu' = RLocked(t)
    /\ th' = Call(t, "Has", "", NilValue, "")
    /\ last' = NoReturn
    /\ UNCHANGED <<srv, impl, beans, services, heap, nextObj, reg, stored,
                 populated>>

\* the rest of Has: what HasBean returns
HasBody(t) ==
    LET f == th[t]
    IN /\ f.pc = "locked"
       /\ f.op = "Has"
       /\ mu' = RUnlocked(t)
       /\ th' = [th EXCEPT ![t] = IdleFrame]
       /\ \E name \in ResolveNames :
             last' = Return("Has", t, name, NilValue, Exists(name))
       /\ UNCHANGED <<srv, impl, beans, services, heap, nextObj, reg, stored,
                 populated>>

\* the calls of goroutine t when the host hands the container any bean
\* value and uses the legacy methods with two objects of one type
AnyCalls(t) ==
    \/ \E n \in InputNames, v \in SimpleValues : ProvideWithNameLock(t, n, v)
    \/ RegisterLock(t, Mem2)
    \/ RegisterAsLock(t, Mem2, IDatastore)
    \/ ResolveRLock(t)
    \/ HasRLock(t)
    \/ Calls(t)

\* the steps of goroutine t inside a legacy lookup
AnySteps(t) ==
    \/ ResolveBody(t)
    \/ HasBody(t)
    \/ Steps(t)

\* the container driven from one goroutine, as in the host's bootstrap, and
\* handed every kind of bean value
SeqNext == AnyCalls(1) \/ AnySteps(1)

SeqSpec == Init /\ [][SeqNext]_vars

(***************************************************************************)
(* The host: Server.Start, initContainer and Shutdown                      *)
(***************************************************************************)
\* the registrations of initContainer, in the order of the code: two by
\* registerUtilities, one each by registerInfrastructure,
\* registerDomainServices and registerAPIComponents
Registrations == <<"config", "validator", "datastore", "domain", "api">>

\* mutant: the error of a call is dropped
Failed_Never(ok) == FALSE
\* `if err := ...; err != nil { return fmt.Errorf(...) }`
Failed(ok) == ~ok

\* Start up to the first call of initContainer; a host may call Start again
\* when it has returned an error
Start(t) ==
    /\ impl = "simple"
    /\ srv.pc \in {"new", "failed"}
    /\ th[t].pc = "idle"
    /\ srv' = [NewServer EXCEPT !.pc = "config"]
    /\ last' = NoReturn
    /\ UNCHANGED <<impl, beans, services, mu, th, heap, nextObj, reg, stored,
                 populated>>

\* registerUtilities up to the Lock of ProvideWithName("config", s.config)
RegisterConfig(t) ==
    /\ srv.pc = "config"
    /\ ~srv.waits
    /\ ProvideWithNameEnter(t, "config", Cfg)
    /\ srv' = [srv EXCEPT !.waits = TRUE]

\* registerUtilities up to the Lock of ProvideWithName("validator", v)
RegisterValidator(t) ==
    /\ srv.pc = "validator"
    /\ ~srv.waits
    /\ ProvideWithNameEnter(t, "validator", Validator)
    /\ srv' = [srv EXCEPT !.waits = TRUE]

\* registerInfrastructure: CreateDatastore or Migrate fails and Start
\* returns the error, or up to the Lock of
\* ProvideWithName("datastore", datastore)
RegisterInfrastructure(t) ==
    /\ srv.pc = "datastore"
    /\ ~srv.waits
    /\ \/ /\ ProvideWithNameEnter(t, "datastore", Mem)
          /\ srv' = [srv EXCEPT !.waits = TRUE]
       \/ /\ srv' = [srv EXCEPT !.pc = "failed"]
          /\ last' = NoReturn
          /\ UNCHANGED <<impl, beans, services, mu, th, heap, nextObj, reg,
                         stored, populated>>

\* registerDomainServices: the call Provides(service.InitServiceBean()...)
RegisterDomainServices(t) ==
    /\ srv.pc = "domain"
    /\ ~srv.waits
    /\ ProvidesEnter(t, <<SvcDI>>)
    /\ srv' = [srv EXCEPT !.waits = TRUE]

\* registerAPIComponents: the call Provides(api.InitAPI()...)
RegisterAPIComponents(t) ==
    /\ srv.pc = "api"
    /\ ~srv.waits
    /\ ProvidesEnter(t, <<App>>)
    /\ srv' = [srv EXCEPT !.waits = TRUE]

\* initContainer up to the Lock of s.beanContainer.Populate()
CallPopulate(t) ==
    /\ srv.pc = "populate"
    /\ ~srv.waits
    /\ PopulateEnter(t)
    /\ srv' = [srv EXCEPT !.waits = TRUE, !.calls = @ + 1]

\* where initContainer goes on after the call at srv.pc has returned nil
AfterCall ==
    CASE srv.pc = "config" -> "validator"
      [] srv.pc = "validator" -> "datastore"
      [] srv.pc = "datastore" -> "domain"
      [] srv.pc = "domain" -> "api"
      [] srv.pc = "api" -> "populate"
      [] OTHER -> "serving"

\* the Server after the call initContainer made has returned r: on an error
\* initContainer and Start return it; otherwise initContainer goes on with
\* its next call, and after Populate Start goes on to ListenAndServe
AfterReturn(r) ==
    IF Failed(r.ok)
    THEN [srv EXCEPT !.pc = "failed", !.waits = FALSE]
    ELSE [srv EXCEPT !.pc = AfterCall, !.waits = FALSE,
                     !.done = IF r.ok /\ srv.pc # "populate"
                              THEN Append(@, srv.pc) ELSE @,
                     !.up = srv.pc = "populate"]

\* the returns initContainer waits for
InitOps == {"ProvideWithName", "Provides", "Populate"}

\* a step of the container method initContainer has called, and what
\* initContainer and Start do when that step is its return.  (The lookups
\* of injectDependencies are steps of GetRLock, which waits for the lock
\* Populate holds.)
InitStep(t) ==
    /\ srv.waits
    /\ \/ ProvideWithNameRest(t)
       \/ ProvidesTurn(t)
       \/ PopulateTurn(t)
    /\ srv' = IF last'.op \in InitOps THEN AfterReturn(last') ELSE srv

\* Shutdown, which main calls from its own goroutine: s.httpServer.Shutdown
\* when ListenAndServe has been reached, then up to the Lock of
\* s.beanContainer.Clear()
Shutdown(t) ==
    /\ ClearEnter(t)
    /\ srv' = [srv EXCEPT !.up = FALSE]

\* goroutine 1 runs Start, goroutine 2 runs Shutdown
HostNext ==
    \/ Start(1)
    \/ RegisterConfig(1)
    \/ RegisterValidator(1)
    \/ RegisterInfrastructure(1)
    \/ RegisterDomainServices(1)
    \/ RegisterAPIComponents(1)
    \/ CallPopulate(1)
    \/ InitStep(1)
    \/ Shutdown(2)
    \/ ClearBody(2)

HostSpec == Init /\ [][HostNext]_vars

(***************************************************************************)
(* Properties                                                              *)
(***************************************************************************)
InPopulate(t) == th[t].pc # "idle" /\ th[t].op = "Populate"
PopulateReturned(t) == last.op = "Populate" /\ last.t = t
ProvideOps == {"ProvideWithName", "Provide"}

\* C1: every call of Populate returns to its caller, also when a
\* registered bean is a pointer to a struct with a settable field whose
\* inject tag is non-empty.
C1_PopulateReturns ==
    \A t \in Threads : InPopulate(t) ~> ~InPopulate(t)

\* C2: no nested locking: a goroutine that holds the container's mutex,
\* exclusively or shared, never tries to acquire it again before it has
\* released it.
C2_NoNestedLocking ==
    \A t \in Threads :
        th[t].pc = "get_rlock" => mu.writer # t /\ t \notin mu.readers

\* C3 as stated: for every name n and value v, after provide(n, v) has
\* succeeded and without a clear/close in between, get(n) returns (v, true).
C3_GetAfterProvide_AnyName ==
    last.op = "Get" /\ last.name \in DOMAIN reg
        => last.ok /\ last.val = reg[last.name]

\* C3 (amended): after provide(n, v) has succeeded and without a
\* clear/close in between, get(n) returns (v, true), for every n on
\* DIContainer.Provide and for every non-blank n on
\* SimpleContainer.ProvideWithName (which stores a bean given a blank name
\* under the type string of the bean, not under "").
C3_GetAfterProvide ==
    last.op = "Get" /\ last.name \in DOMAIN reg
            /\ (impl = "simple" => last.name # "")
        => last.ok /\ last.val = reg[last.name]

C3_Witness ==
    /\ last.op = "Get"
    /\ last.name \in DOMAIN reg
    /\ (impl = "simple" => last.name # "")
    /\ last.ok
    /\ last.val = reg[last.name]
    /\ last.val # NilValue

\* C4 as stated: for every name n, provide(n, v2) after a successful
\* provide(n, v1) returns an error and leaves the registry unchanged.
C4_DuplicateRejected_AnyName ==
    [][last'.op \in ProvideOps /\ last'.name \in DOMAIN reg
         => ~last'.ok /\ beans' = beans]_vars

\* C4 (amended): provide(n, v2) after a successful provide(n, v1) returns
\* an error and leaves the registry unchanged (get(n) still returns
\* (v1, true), count() is the same) whenever both calls resolve to the same
\* key: for every n on DIContainer.Provide, for every non-blank n on
\* SimpleContainer.ProvideWithName, and for a blank n on
\* SimpleContainer.ProvideWithName when v1 and v2 have the same runtime type.
SameKey(n, v1, v2) == impl = "simple" /\ n = "" => v1.type = v2.type
C4_DuplicateRejected ==
    [][last'.op \in ProvideOps /\ last'.name \in DOMAIN reg
            /\ SameKey(last'.name, reg[last'.name], last'.val)
         => LET key == IF impl = "simple"
                       THEN EffectiveName(last'.name, last'.val)
                       ELSE last'.name
            IN /\ ~last'.ok
               /\ beans' = beans
               /\ key \in DOMAIN beans'
               /\ BeanValue(beans'[key]) = reg[last'.name]
               /\ Cardinality(DOMAIN beans') = Count
               /\ reg' = reg]_vars

C4_Witness ==
    /\ last.op \in ProvideOps
    /\ ~last.ok
    /\ last.name \in DOMAIN reg
    /\ reg[last.name] # last.val
    /\ Count = 1

\* C5: create-once: once a name is bound by any registration entry point,
\* the value and the lifecycle bound to it never change until the container
\* is cleared/closed; no registration overwrites a binding.
C5_CreateOnce ==
    [][last'.op \notin {"Clear", "Close"}
         => \A n \in DOMAIN beans :
               n \in DOMAIN beans' /\ beans'[n] = beans[n]]_vars

C5_Witness ==
    /\ last.op \in {"RegisterFactory", "RegisterWithLifecycle", "Provides",
                    "Register", "RegisterAs", "ProvideWithName"}
    /\ last.name \in DOMAIN beans
    /\ stored[last.name] # last.val
    /\ BeanValue(beans[last.name]) = stored[last.name]

\* a settable field of a registered bean that is marked with the explicit
\* name of a registered bean of an assignable type
Wirable(n, j) ==
    LET v == BeanValue(beans[n])
        fd == TargetFields(v)[j]
        d == TagGet(fd.tag)
    IN /\ d # ""
       /\ CanSet(v, fd)
       /\ d \in DOMAIN beans
       /\ AssignableTo(BeanValue(beans[d]).type, fd.type)
FieldsOf(n) == 1..Len(TargetFields(BeanValue(beans[n])))
FieldValue(n, j) ==
    LET v == BeanValue(beans[n])
    IN heap[v.id][TargetFields(v)[j].name]

\* C6: after populate() has returned, every settable field marked with the
\* explicit name d of a registered bean of an assignable type holds that
\* bean's value; a populate() called on such a registry comes to that.
C6_PopulateWiresByName ==
    \A t \in Threads :
        (InPopulate(t) /\ \E n \in DOMAIN beans : \E j \in FieldsOf(n) :
                              Wirable(n, j))
          ~> (PopulateReturned(t)
                /\ \A n \in DOMAIN beans : \A j \in FieldsOf(n) :
                      Wirable(n, j)
                        => FieldValue(n, j)
                             = BeanValue(beans[TagGet(
                                 TargetFields(BeanValue(beans[n]))[j].tag)]))

\* a settable field marked with a name that no registered bean has
Unresolvable(n, j) ==
    LET v == BeanValue(beans[n])
        fd == TargetFields(v)[j]
    IN /\ TagGet(fd.tag) # ""
       /\ CanSet(v, fd)
       /\ TagGet(fd.tag) \notin DOMAIN beans

\* C7: populate() on a registry with a marked field whose name is not the
\* name of any registered bean returns without an error and leaves that
\* field at its zero value.
C7_UnresolvedLeftZero ==
    \A t \in Threads :
        (InPopulate(t) /\ \E n \in DOMAIN beans : \E j \in FieldsOf(n) :
                              Unresolvable(n, j))
          ~> (PopulateReturned(t) /\ last.ok
                /\ \A n \in DOMAIN beans : \A j \in FieldsOf(n) :
                      Unresolvable(n, j) => FieldValue(n, j) = NilValue)

\* a settable field that carries the inject marker with an empty value
EmptyMarked(n, j) ==
    LET v == BeanValue(beans[n])
        fd == TargetFields(v)[j]
    IN fd.tag.present /\ fd.tag.value = "" /\ CanSet(v, fd)
\* a registered bean that the type-based lookup (or the lookup by the type
\* name) finds for the field
HasMatch(n, j) ==
    LET fd == TargetFields(BeanValue(beans[n]))[j]
    IN \/ \E m \in DOMAIN beans : TypeMatches(BeanValue(beans[m]), fd.type)
       \/ fd.type \in DOMAIN beans

\* C8: a field whose inject marker is empty is eligible: after populate()
\* has returned it holds a match of the type-based lookup (or of the lookup
\* by the type name) when one is registered.
C8_EmptyMarkerWired ==
    (last.op = "Populate" /\ impl = "simple")
        => \A n \in DOMAIN beans : \A j \in FieldsOf(n) :
              EmptyMarked(n, j) /\ HasMatch(n, j)
                  => FieldValue(n, j) # NilValue

\* C9: for a Prototype bean with a factory, every get(name) invokes the
\* factory exactly once and returns that new instance: it is none of the
\* objects that existed before the call (so it differs from every instance
\* returned earlier) and it is not the instance stored at registration.
C9_PrototypeFresh ==
    [][last'.op = "Get" /\ impl = "di" /\ CallsFactory(last'.name)
         => /\ last'.ok
            /\ last'.val.id \notin DOMAIN heap
            /\ last'.val.id \in DOMAIN heap'
            /\ nextObj' = nextObj + 1
            /\ Cardinality(DOMAIN heap') = Cardinality(DOMAIN heap) + 1
            /\ last'.val # beans[last'.name].Value
            /\ beans' = beans]_vars

C9_Witness ==
    /\ last.op = "Get"
    /\ impl = "di"
    /\ CallsFactory(last.name)
    /\ last.val.id = nextObj - 1
    /\ last.val.id > beans[last.name].Value.id + 1

\* whether get resolves the bean as a Singleton
IsSingleton(n) == impl = "simple" \/ beans[n].Lifecycle = Singleton

\* C10: for a Singleton bean, every get(name) without a clear/close in
\* between returns the very instance that was stored at registration, and
\* the call neither rebinds the name nor makes a new instance.
C10_SingletonIdentity ==
    [][last'.op = "Get" /\ last'.name \in DOMAIN beans
            /\ IsSingleton(last'.name)
         => /\ last'.ok
            /\ last'.name \in DOMAIN stored
            /\ last'.val = stored[last'.name]
            /\ stored' = stored
            /\ heap' = heap]_vars

C10_Witness ==
    /\ last.op = "Get"
    /\ last.ok
    /\ last.name \in DOMAIN beans
    /\ IsSingleton(last.name)
    /\ last.val = stored[last.name]
    /\ (impl = "di" => beans[last.name].Factory # NoFactory)

\* the registration methods that report an error to their caller
RegOps == {"ProvideWithName", "Provide", "Provides", "RegisterWithLifecycle",
           "RegisterFactory"}

\* C11: clear()/close() empties the container: right after it, and until
\* the next successful registration, get and has find nothing and count()
\* is 0; a second clear() leaves the container empty; and a registration
\* made on the cleared container succeeds, also under a name that was bound
\* before the clear.
C11_ClearEmpties ==
    [][/\ last'.op \in {"Clear", "Close"}
            => beans' = EmptyMap /\ Cardinality(DOMAIN beans') = 0
       /\ stored = EmptyMap
            => /\ last'.op \in {"Get", "HasBean", "GetByType"} => ~last'.ok
               /\ last'.op = "Count" => last'.val = IntValue(0)
               /\ last'.op \in RegOps => last'.ok]_vars

C11_Witness ==
    /\ last.op \in {"Clear", "Close"}
    /\ nextObj > NumHostObjects + 1
    /\ beans = EmptyMap
    /\ stored = EmptyMap

\* the names of the registered beans whose type satisfies beanType
Satisfying(beanType) ==
    {n \in DOMAIN beans : AssignableTo(beans[n].Type, beanType)}
\* vs holds the stored value of every bean named in S, each bean once
ExactlyValuesOf(vs, S) ==
    \E order \in Orderings(S) :
        vs = [i \in 1..Len(order) |-> beans[order[i]].Value]

\* C12: GetBeansByType of an interface type returns normally, and the
\* slice it returns holds the stored value of every registered bean whose
\* type implements the interface, each bean once, whichever method
\* registered the bean.
C12_BeansByCapability ==
    (last.op = "GetBeansByType" /\ last.name \in Interfaces)
        => /\ last.ok
           /\ ExactlyValuesOf(last.vals, Satisfying(last.name))

\* C13: GetBeansByType of a concrete type returns normally, and the slice
\* it returns holds exactly the beans of that type, also when beans of
\* other types or a nil bean are registered.
C13_BeansByConcreteType ==
    (last.op = "GetBeansByType" /\ last.name \notin Interfaces)
        => /\ last.ok
           /\ ExactlyValuesOf(last.vals,
                  {n \in DOMAIN beans : beans[n].Type = last.name})

\* C14: a bean provided with a blank name is stored under the type
\* identifier of its value, where Get finds it, by ProvideWithName and
\* Provides of SimpleContainer and by Provide of DIContainer alike; and no
\* bean is stored under the empty name.
C14_BlankNameDefaults ==
    /\ "" \notin DOMAIN beans
    /\ "" \in DOMAIN reg
         => /\ TypeString(reg[""]) \in DOMAIN beans
            /\ BeanValue(beans[TypeString(reg[""])]) = reg[""]

\* a registered bean with a settable field that is marked with the name of
\* a registered bean and still holds its zero value
Unwired(n) ==
    \E j \in FieldsOf(n) : Wirable(n, j) /\ FieldValue(n, j) = NilValue

\* C15: only Populate wires: a step that is not a step of a goroutine
\* inside Populate (a registration, Get, HasBean, Count, a type query, a
\* clear) leaves every field of every existing object as it was; so a bean
\* registered after Populate has returned keeps its registration-time
\* fields for as long as Populate is not called again.
C15_OnlyPopulateWires ==
    [][\A i \in DOMAIN heap :
          heap'[i] # heap[i]
            => \E t \in Threads : InPopulate(t) /\ th'[t] # th[t]]_vars

C15_Witness ==
    /\ populated
    /\ \A t \in Threads : ~InPopulate(t)
    /\ \E n \in DOMAIN beans : Unwired(n)
    /\ last.op \in {"Get", "HasBean", "Count"}
    /\ last.ok

\* C16: RegisterFactory on a fresh name calls the factory once (one object
\* is made) and stores that instance, the factory and the lifecycle under
\* the name; on a registered name it returns an error, calls no factory
\* (no object is made) and leaves the registry as it was.
C16_RegisterFactory ==
    [][last'.op = "RegisterFactory"
         => LET n == last'.name
            IN IF n \notin DOMAIN beans
               THEN /\ last'.ok
                    /\ nextObj' = nextObj + 1
                    /\ DOMAIN beans' = DOMAIN beans \cup {n}
                    /\ beans'[n].Value.id = nextObj
                    /\ beans'[n].Value.id \notin DOMAIN heap
                    /\ beans'[n].Value = last'.val
                    /\ beans'[n].Factory \in Factories
                    /\ beans'[n].Type = FactoryType(beans'[n].Factory)
                    /\ \E t \in Threads :
                          /\ th[t].op = "RegisterFactory"
                          /\ th'[t].pc = "idle"
                          /\ beans'[n].Lifecycle = th[t].lc
                          /\ beans'[n].Factory = th[t].fac
               ELSE /\ ~last'.ok
                    /\ nextObj' = nextObj
                    /\ heap' = heap
                    /\ beans' = beans]_vars

C16_Witness ==
    /\ last.op = "RegisterFactory"
    /\ ~last.ok
    /\ last.name \in DOMAIN beans
    /\ beans[last.name].Factory \in Factories
    /\ beans[last.name].Value.id = nextObj - 1

\* the methods that take the write lock and those that take the read lock
WriteOps == {"ProvideWithName", "Provide", "RegisterWithLifecycle",
             "RegisterFactory", "Clear", "Close", "Populate"}
ReadOps == {"Get", "GetByType", "HasBean", "Count", "ListBeans",
            "GetBeansByType"}
\* goroutine t is between the Lock and the Unlock of a writing method
Writing(t) ==
    th[t].op \in WriteOps /\ th[t].pc \in {"locked", "get_rlock", "get_locked"}
\* goroutine t is between the RLock and the RUnlock of a lookup
Reading(t) ==
    \/ th[t].op \in ReadOps /\ th[t].pc = "locked"
    \/ th[t].pc = "get_locked"

\* C17: mutual exclusion: while a goroutine is inside the critical section
\* of a registration, of Clear/Close or of Populate, it holds the write
\* lock and no other goroutine is inside any critical section; a goroutine
\* inside a lookup holds the read lock, so lookups overlap with lookups
\* only.
C17_MutualExclusion ==
    \A t \in Threads :
        /\ Writing(t)
             => /\ mu.writer = t
                /\ \A u \in Threads \ {t} : ~Writing(u) /\ ~Reading(u)
        /\ Reading(t) => t \in mu.readers

\* a writer is inside while another goroutine is about to lock
C17_Witness ==
    \E t, u \in Threads :
        /\ t # u
        /\ Writing(t)
        /\ mu.readers = {}
        /\ th[u].pc = "provides"
        /\ th[u].batch # << >>

\* C18: Get of a bean that is not a Prototype with a factory (a Prototype
\* registered without a factory, a Session or Request bean with or without
\* a factory) returns the instance stored at registration, as for a
\* Singleton, and invokes no factory: no object is made.
C18_StoredUnlessPrototypeFactory ==
    [][(/\ last'.op = "Get"
        /\ impl = "di"
        /\ last'.name \in DOMAIN beans
        /\ ~IsSingleton(last'.name)
        /\ ~CallsFactory(last'.name))
         => /\ last'.ok
            /\ last'.val = beans[last'.name].Value
            /\ last'.val = stored[last'.name]
            /\ nextObj' = nextObj
            /\ heap' = heap
            /\ beans' = beans]_vars

C18_Witness ==
    /\ last.op = "Get"
    /\ impl = "di"
    /\ last.ok
    /\ last.name \in DOMAIN beans
    /\ beans[last.name].Lifecycle \in {Session, Request}
    /\ beans[last.name].Factory \in Factories
    /\ last.val = stored[last.name]
    /\ nextObj = last.val.id + 1

\* C19: the populate pass never aborts early: whatever the lookups of the
\* marked fields give, a Populate that has started comes to the end of its
\* loop with every registered bean visited (from where it returns success).
C19_PopulateVisitsAll ==
    \A t \in Threads :
        InPopulate(t)
          ~> (/\ th[t].op = "Populate"
              /\ th[t].pc = "locked"
              /\ th[t].visited = DOMAIN beans)

\* a settable field marked with the name of a registered bean whose type
\* is not assignable to the type of the field
Mismatched(n, j) ==
    LET v == BeanValue(beans[n])
        fd == TargetFields(v)[j]
        d == TagGet(fd.tag)
    IN /\ d # ""
       /\ CanSet(v, fd)
       /\ d \in DOMAIN beans
       /\ ~AssignableTo(BeanValue(beans[d]).type, fd.type)
\* every field of a registered bean holds nil or a value of a type
\* assignable to the type of the field
FieldsWellTyped ==
    \A n \in DOMAIN beans : \A j \in FieldsOf(n) :
        \/ FieldValue(n, j) = NilValue
        \/ AssignableTo(FieldValue(n, j).type,
                        TargetFields(BeanValue(beans[n]))[j].type)

\* C20: populate() on a registry where the candidate found for a marked
\* field is not assignable to the field returns without an error and
\* leaves the field as it was; and no field ever holds a value of a type
\* that is not assignable to it.
C20_MismatchLeftUntouched ==
    /\ []FieldsWellTyped
    /\ \A t \in Threads :
         (InPopulate(t) /\ \E n \in DOMAIN beans : \E j \in FieldsOf(n) :
                               Mismatched(n, j))
           ~> (PopulateReturned(t) /\ last.ok
                 /\ \A n \in DOMAIN beans : \A j \in FieldsOf(n) :
                       Mismatched(n, j) => FieldValue(n, j) = NilValue)

\* the pointer types: what reflection reaches through them is addressable
PointerTypes == {TMemory, TSvcDI, TSvcPlain, TApp}
\* a bean that is no record behind at most one pointer: a scalar, the nil
\* interface, a nil pointer
NotARecord(v) == v.type \in {TNil, "int"} \/ v.id = 0
\* a field the pass has to skip: not marked, not exported, or a field of a
\* struct that was registered by value
MustSkip(v, fd) ==
    \/ ~fd.tag.present
    \/ ~fd.exported
    \/ v.type \notin PointerTypes
\* a bean all of whose fields the pass has to skip
SkippedBean(v) ==
    \/ NotARecord(v)
    \/ \A j \in 1..Len(StructFields(v.type)) :
          MustSkip(v, StructFields(v.type)[j])

\* C21: populate() skips what is not eligible, without an error and without
\* a change: a bean that is no record (scalar, nil, nil pointer), a field without
\* the marker, a marked field that is unexported or belongs to a struct
\* registered by value.  The turn of the loop for a bean with nothing
\* eligible looks nothing up and goes on with the loop; no step changes a
\* field that has to be skipped; every return of Populate is a success.
C21_IneligibleSkipped ==
    [][/\ \A t \in Threads : \A n \in DOMAIN beans :
            (/\ th[t].op = "Populate"
             /\ th[t].pc = "locked"
             /\ n \notin th[t].visited
             /\ \/ th'[t].visited = th[t].visited \cup {n}
                \/ th'[t].cur = n
             /\ SkippedBean(BeanValue(beans[n])))
              => /\ th'[t].pc = "locked"
                 /\ th'[t].op = "Populate"
                 /\ heap' = heap
                 /\ beans' = beans
       /\ \A n \in DOMAIN beans :
            LET v == BeanValue(beans[n])
            IN ~NotARecord(v)
                 => \A j \in 1..Len(StructFields(v.type)) :
                       LET fd == StructFields(v.type)[j]
                       IN MustSkip(v, fd)
                            => heap'[v.id][fd.name] = heap[v.id][fd.name]
       /\ last'.op = "Populate" => last'.ok]_vars

\* Populate has returned on a registry that holds a struct registered by
\* value, whose marked field is as it was, and a bean that is no record
C21_Witness ==
    /\ last.op = "Populate"
    /\ last.ok
    /\ \E n \in DOMAIN beans :
          /\ BeanValue(beans[n]) = SvcVal
          /\ heap[SvcVal.id]["Store"] = NilValue
    /\ \E n \in DOMAIN beans : NotARecord(BeanValue(beans[n]))

\* C22: GetByType returns (v, true) exactly when some registered bean
\* matches (its type is the target type, or the target is an interface its
\* type implements), v is then one of the matching beans; it returns
\* (nil, false) when no bean matches.
C22_GetByType ==
    last.op = "GetByType"
        => LET hits == {n \in DOMAIN beans : TypeMatches(beans[n], last.name)}
           IN /\ last.ok <=> hits # {}
              /\ last.ok => \E n \in hits : last.val = beans[n]
              /\ ~last.ok => last.val = NilValue

\* the step is a call of Populate by goroutine t
CallsPopulate(t) == th[t].op # "Populate" /\ th'[t].op = "Populate"
\* the step is the return of an error to initContainer by a registration
RegistrationFails ==
    srv.waits /\ last'.op \in {"ProvideWithName", "Provides"} /\ ~last'.ok

\* C23: in the host's bootstrap Populate is called at most once per Start,
\* and only when the registrations of the four phases (utilities,
\* infrastructure, domain services, API components) have all returned nil,
\* in that order; when a registration returns an error, Start returns an
\* error, and a Start that has returned an error has not called Populate
\* and has not reached ListenAndServe.
C23_BootstrapOrdering ==
    [][/\ CallsPopulate(1) => srv.done = Registrations /\ srv.calls = 0
       /\ \A t \in Threads \ {1} : ~CallsPopulate(t)
       /\ srv'.calls <= 1
       /\ RegistrationFails => srv'.pc = "failed"
       /\ srv'.pc = "failed"
            => srv'.calls = 0 /\ ~srv'.up /\ th'[1].pc = "idle"]_vars

\* initContainer has called Populate after its five registrations succeeded
C23_Witness ==
    /\ th[1].op = "Populate"
    /\ srv.calls = 1
    /\ srv.done = Registrations
    /\ {"config", "validator", "datastore", TSvcDI, TApp} \subseteq DOMAIN beans
\* the registration methods that take a name
NamedOps == {"ProvideWithName", "Provide", "RegisterWithLifecycle",
             "RegisterFactory"}
\* a call with the name n has succeeded since the last Clear/Close
NameUsed(n) == IF impl = "simple" THEN n \in DOMAIN reg ELSE n \in DOMAIN beans
\* the key a registration of v under the name n is stored under
Key(n, v) == IF impl = "simple" THEN EffectiveName(n, v) ELSE n
\* what the registration that has just returned bound, when it succeeded
Bound(r) == IF r.op = "RegisterFactory" THEN stored'[r.name] ELSE r.val

\* C24 as stated: of the callers that register under the same name, unused
\* before, exactly one succeeds: a registration succeeds exactly when no
\* call with its name has succeeded before, and makes count() grow by one;
\* the others fail and change nothing.
C24_OneWinner_AnyName ==
    [][last'.op \in NamedOps
         => /\ last'.ok <=> ~NameUsed(last'.name)
            /\ Cardinality(DOMAIN beans') = Count + (IF last'.ok THEN 1 ELSE 0)
            /\ ~last'.ok => beans' = beans]_vars

\* C24 (amended): of the callers that register different values under the
\* same key (the name; on SimpleContainer the type string of the bean when
\* the name is blank), unused before, exactly one succeeds, in every
\* interleaving: a registration succeeds exactly when its key is not bound,
\* it then binds the key to its value and count() grows by exactly one; a
\* registration on a bound key returns the error and changes nothing; and
\* the key stays bound to the value of the one that succeeded, which is what
\* get resolves.
C24_OneWinner ==
    [][/\ last'.op \in NamedOps
            => LET k == Key(last'.name, last'.val)
               IN /\ last'.ok <=> k \notin DOMAIN beans
                  /\ last'.ok
                       => /\ DOMAIN beans' = DOMAIN beans \cup {k}
                          /\ Cardinality(DOMAIN beans') = Count + 1
                          /\ BeanValue(beans'[Key(last'.name, Bound(last'))])
                                = Bound(last')
                  /\ ~last'.ok
                       => /\ beans' = beans
                          /\ stored' = stored
                          /\ Cardinality(DOMAIN beans') = Count
       /\ \A n \in DOMAIN beans' :
             /\ n \in DOMAIN stored'
             /\ BeanValue(beans'[n]) = stored'[n]
       /\ last'.op = "Get" /\ last'.name \in DOMAIN beans
             /\ ~(impl = "di" /\ CallsFactory(last'.name))
            => last'.ok /\ last'.val = stored[last'.name]]_vars

\* a caller has lost against a caller with another value for the same key,
\* while another goroutine is inside a method
C24_Witness ==
    /\ last.op \in NamedOps
    /\ ~last.ok
    /\ Key(last.name, last.val) \in DOMAIN stored
    /\ stored[Key(last.name, last.val)] # last.val
    /\ Count = 1
    /\ \E t \in Threads : th[t].pc # "idle"
\* the objects the registry holds
BoundObjects == {BeanValue(beans[n]).id : n \in DOMAIN beans}

\* C25: Prototype instances are outside the wiring pass: Populate works on
\* the instances the registry holds (for a factory bean, the one made at
\* registration); an instance that Get makes with the factory of a
\* Prototype bean is new, has none of its fields set when it is returned,
\* also when a Populate has returned and the bean its tag names is
\* registered, and no later step of the container assigns a field of an
\* object the registry does not hold.
C25_PrototypeUnwired ==
    [][/\ last'.op = "Get" /\ impl = "di" /\ CallsFactory(last'.name)
            => /\ last'.val.id \notin DOMAIN heap
               /\ last'.val.id \notin BoundObjects
               /\ heap'[last'.val.id] = ZeroStruct(last'.val.type)
       /\ \A o \in DOMAIN heap : o \notin BoundObjects => heap'[o] = heap[o]
       /\ \A t \in Threads :
             th'[t].op = "Populate" /\ th'[t].cur # ""
                => th'[t].cur \in DOMAIN beans']_vars

\* Get has returned a new instance of a Prototype bean, its Store field not
\* set, although a Populate has returned and "datastore" is registered
C25_Witness ==
    /\ impl = "di"
    /\ last.op = "Get"
    /\ CallsFactory(last.name)
    /\ populated
    /\ "datastore" \in DOMAIN beans
    /\ last.val # beans[last.name].Value
    /\ heap[last.val.id]["Store"] = NilValue
\* goroutine t is in the ProvideWithName("", bean) that Provides calls for
\* the next bean of its batch, and takes a step
ProvidesElement(t) ==
    /\ th[t].pc = "locked"
    /\ th[t].op = "ProvideWithName"
    /\ th[t].caller = "Provides"
    /\ th'[t] # th[t]

\* C26: Provides is not atomic: each bean of the batch is registered under
\* its type string in turn and stays registered; at the first bean whose
\* type string is bound already (by an earlier bean of the same batch among
\* others) Provides returns the error at once: that bean and the rest of
\* the batch are not registered, and nothing registered before is undone.
C26_BatchNotAtomic ==
    [][\A t \in Threads :
         ProvidesElement(t)
           => LET v == th[t].val
                  k == TypeString(v)
              IN IF k \in DOMAIN beans
                 THEN /\ last' = Return("Provides", t, "", v, FALSE)
                      /\ th'[t] = IdleFrame
                      /\ beans' = beans
                      /\ stored' = stored
                 ELSE /\ beans' = Put(beans, k, v)
                      /\ last' = NoReturn
                      /\ th'[t].pc = "provides"
                      /\ th'[t].batch = th[t].batch]_vars

\* Provides has returned the error at a bean whose type string an earlier
\* bean of the same type holds, and that earlier bean is still registered
C26_Witness ==
    /\ last.op = "Provides"
    /\ ~last.ok
    /\ TypeString(last.val) \in DOMAIN beans
    /\ beans[TypeString(last.val)] = last.val
    /\ Count = 1
\* the number of names bound, and of the registrations that have succeeded
\* since the last Clear/Close
Names(m) == Cardinality(DOMAIN m)
\* the methods that look up, and the ones that report a failed registration
LookupOps == {"Get", "HasBean", "Count", "GetByType", "GetBeansByType",
              "ListBeans"}

\* C27: count() is the number of names bound, which is the number of
\* registrations that have succeeded since the last Clear/Close; it grows
\* by exactly one with each successful registration, only Clear/Close makes
\* it smaller, and a failed registration, a lookup or a step of Populate
\* leaves it as it is.
C27_CountInvariant ==
    [][/\ last'.op = "Count" => last'.val = IntValue(Names(beans'))
       /\ Names(beans') = Names(stored')
       /\ stored' # stored /\ last'.op \notin {"Clear", "Close"}
            => /\ Names(beans') = Names(beans) + 1
               /\ Names(stored') = Names(stored) + 1
       /\ Names(beans') > Names(beans) => Names(beans') = Names(beans) + 1
       /\ Names(beans') < Names(beans) => last'.op \in {"Clear", "Close"}
       /\ last'.op \in RegOps /\ ~last'.ok => Names(beans') = Names(beans)
       /\ last'.op \in LookupOps => Names(beans') = Names(beans)
       /\ \A t \in Threads :
             th[t].op = "Populate" /\ th'[t] # th[t]
                => Names(beans') = Names(beans)]_vars

\* count() has returned 2 after two registrations succeeded
C27_Witness ==
    /\ last.op = "Count"
    /\ last.val = IntValue(2)
    /\ Names(stored) = 2
    /\ Names(beans) = 2
\* the values the registry offers for a field: the bean registered under
\* the name of its tag, or under the name of its type
Resolved(fd) ==
    {beans[n] : n \in {TagGet(fd.tag), fd.type} \cap DOMAIN beans}

\* C28: Populate of SimpleContainer preserves the registry and is
\* idempotent: no step of a goroutine inside Populate changes the names
\* bound or the instance bound to a name, and a field such a step assigns
\* gets a value that the registry alone determines (a bean registered under
\* the key of the field), so that a Populate repeated on the same registry
\* leaves every field as the first one left it; a Populate that runs after
\* one has returned changes no field of a bean that was registered then.
C28_PopulateIdempotent ==
    [][impl = "simple"
         => \A t \in Threads :
              InPopulate(t) /\ th'[t] # th[t]
                => /\ beans' = beans
                   /\ stored' = stored
                   /\ \A n \in DOMAIN beans :
                         LET v == beans[n]
                             fs == TargetFields(v)
                         IN \A j \in 1..Len(fs) :
                              LET old == heap[v.id][fs[j].name]
                                  new == heap'[v.id][fs[j].name]
                              IN /\ new # old => new \in Resolved(fs[j])
                                 /\ populated /\ old # NilValue
                                      => new = old]_vars

\* a second Populate has visited every bean of a registry of two beans and
\* is about to return, after an earlier Populate has returned
C28_Witness ==
    /\ impl = "simple"
    /\ populated
    /\ Count = 2
    /\ \E t \in Threads :
          /\ th[t].op = "Populate"
          /\ th[t].pc = "locked"
          /\ th[t].visited = DOMAIN beans
\* C29: the legacy registration swallows duplicates: Register and
\* RegisterAs return nothing, and on a type name that is bound they leave
\* the registry as it is, so that Resolve of that name goes on returning
\* the instance registered first; Resolve(T) returns a value and no error
\* exactly when a bean is bound under the type string of T, which is when
\* Has(T) returns true.
C29_LegacySwallows ==
    [][/\ last'.op \in {"Register", "RegisterAs"}
            => /\ last'.ok
               /\ IF last'.name \in DOMAIN beans
                  THEN beans' = beans /\ stored' = stored
                  ELSE /\ BeanValue(beans'[last'.name]) = last'.val
                       /\ stored'[last'.name] = last'.val
       /\ last'.op = "Resolve"
            => /\ last'.ok <=> last'.name \in DOMAIN beans
               /\ last'.ok /\ ~(impl = "di" /\ CallsFactory(last'.name))
                    => last'.val = stored[last'.name]
               /\ ~last'.ok => last'.val = NilValue
       /\ last'.op = "Has" => (last'.ok <=> last'.name \in DOMAIN beans)]_vars

\* a Register or RegisterAs of a second object has returned on a name that
\* holds the first one, which stays
C29_Witness ==
    /\ last.op \in {"Register", "RegisterAs"}
    /\ last.name \in DOMAIN stored
    /\ stored[last.name] # last.val
    /\ BeanValue(beans[last.name]) = stored[last.name]
\* C30: the type index of DIContainer is consistent with the bean map:
\* every entry maps a type to the value of a bean of that type that is in
\* the bean map; a successful Provide (also through Register/RegisterAs)
\* sets the entry of the type of its bean to that bean, so the entry holds
\* the bean provided last; nothing else adds or changes an entry,
\* RegisterWithLifecycle and RegisterFactory in particular; Close empties
\* the index together with the bean map.
C30_TypeIndex ==
    [][/\ impl = "simple" => services' = EmptyMap
       /\ impl = "di"
            => \A T \in DOMAIN services' :
                  \E n \in DOMAIN beans' :
                     /\ beans'[n].Type = T
                     /\ beans'[n].Value = services'[T]
       /\ services' # services
            => \/ /\ last'.op \in {"Provide", "Register", "RegisterAs"}
                  /\ beans' # beans
                  /\ services' = Put(services, last'.val.type, last'.val)
               \/ /\ last'.op = "Close"
                  /\ services' = EmptyMap
       /\ last'.op = "Provide" /\ last'.ok
            => /\ last'.val.type \in DOMAIN services'
               /\ services'[last'.val.type] = last'.val
       /\ last'.op \in {"RegisterWithLifecycle", "RegisterFactory"}
            => services' = services
       /\ last'.op = "Close"
            => services' = EmptyMap /\ beans' = EmptyMap]_vars

\* two beans of one type are in the bean map and the index holds the one
\* provided last
C30_Witness ==
    /\ impl = "di"
    /\ last.op \in {"Provide", "Register", "RegisterAs"}
    /\ Count = 2
    /\ \A n \in DOMAIN beans : beans[n].Type = TMemory
    /\ \E n \in DOMAIN beans : beans[n].Value # last.val
    /\ services[TMemory] = last.val
====
